---- MODULE Spec2Model ----
(***************************************************************************)
(* A model of gofs, a small HTTP file server: Create, and the three        *)
(* handlers getEntries, getFile and uploadFile, over a host file system    *)
(* and the server's response cache.                                        *)
(*                                                                         *)
(* A path string is a record [kind, comps]: kind "abs" is "/c1/c2", kind   *)
(* "rel" is "c1/c2" ("." when comps is empty) and kind "empty" is "".      *)
(* A byte string is a record [text, entries]: a zip archive has text "PK"  *)
(* and the sequence of its entries, anything else is not an archive.       *)
(***************************************************************************)
EXTENDS Integers, Sequences, FiniteSets, TLC

VARIABLES
    phase,      \* "init" before Create, then "running" or "failed"; "crashed"
                \* once the Go runtime has ended the process
    createErr,  \* the error text Create returned ("" for nil)
    srv,        \* the Server struct: rootDir, noCache, noDirs
    disk,       \* the host file system: path -> node, for the paths that exist
    cache,      \* Server.cache: resolved path -> bytes, for the keys present
    zips,       \* number of zipdir.ZipToBytes invocations so far
    last,       \* the request served last and its response
    quiet,      \* no outside change of the disk since the last request
    steps,      \* requests served and outside changes of the disk so far
    workers     \* the request workers that run side by side: where each is
                \* in getFile and what it holds (idle when requests are
                \* served one at a time)

vars == <<phase, createErr, srv, disk, cache, zips, last, quiet, steps, workers>>

----------------------------------------------------------------------------
(* Bounds *)

MaxSteps == 3

\* Requests begun by the workers that run side by side.
MaxConc == 3

----------------------------------------------------------------------------
(* Path strings *)

P(kind, comps) == [kind |-> kind, comps |-> comps]

EmptyStr == P("empty", <<>>)

\* filepath.Join(rootDir, addr) where addr is the catch-all URL remainder,
\* "/" followed by the components of a; Join drops an empty rootDir and
\* cleans the result, so "." joined with "/x" is "x".
Join(root, a) ==
    IF root.kind = "empty" THEN P("abs", a) ELSE P(root.kind, root.comps \o a)

\* strings.LastIndex(path, "/"): -1 exactly when the string has no slash.
LastIndexSlash(p) ==
    IF p.kind = "abs" THEN (IF Len(p.comps) = 0 THEN 0 ELSE Len(p.comps) - 1)
    ELSE IF Len(p.comps) >= 2 THEN Len(p.comps) - 1
    ELSE -1

\* path[:i] for i = LastIndexSlash(path) >= 0: everything before the last slash.
BeforeLastSlash(p) ==
    IF p.kind = "abs" /\ Len(p.comps) <= 1 THEN EmptyStr
    ELSE P(p.kind, SubSeq(p.comps, 1, Len(p.comps) - 1))

----------------------------------------------------------------------------
(* The host file system *)

Dir(perm) == [kind |-> "dir", perm |-> perm, data |-> <<>>]
File(perm, b) == [kind |-> "file", perm |-> perm, data |-> <<b>>]

\* The first error of two steps, "" being no error.
ErrOr(e1, e2) == IF e1 # "" THEN e1 ELSE e2

\* "/" and the working directory always exist.
Exists(d, p) == (p.kind # "empty" /\ p.comps = <<>>) \/ p \in DOMAIN d

Node(d, p) == IF p.comps = <<>> THEN Dir("rw") ELSE d[p]

Prefix(p, i) == P(p.kind, SubSeq(p.comps, 1, i))

Parent(p) == P(p.kind, SubSeq(p.comps, 1, Len(p.comps) - 1))

\* The error of passing through q on the way to a path below it.
DirErr(d, q) ==
    IF q.comps = <<>> THEN ""
    ELSE IF q \notin DOMAIN d THEN "ENOENT"
    ELSE IF d[q].kind # "dir" THEN "ENOTDIR"
    ELSE IF d[q].perm = "locked" THEN "EACCES"
    ELSE ""

\* The error of resolving the directories that lead to p, from the i-th on.
RECURSIVE WalkErrFrom(_, _, _)
WalkErrFrom(d, p, i) ==
    IF i >= Len(p.comps) THEN ""
    ELSE ErrOr(DirErr(d, Prefix(p, i)), WalkErrFrom(d, p, i + 1))

WalkErr(d, p) == IF p.kind = "empty" THEN "ENOENT" ELSE WalkErrFrom(d, p, 0)

\* os.Stat(p): the error, "" when p exists and can be reached.
StatErr(d, p) ==
    ErrOr(WalkErr(d, p), IF p.comps = <<>> \/ p \in DOMAIN d THEN "" ELSE "ENOENT")

IsDirNode(d, p) == p.comps = <<>> \/ d[p].kind = "dir"

Put(d, p, n) == [q \in (DOMAIN d) \cup {p} |-> IF q = p THEN n ELSE d[q]]

\* os.Mkdir(p) once the parent has been made: up is [err, disk].
Mkdir(up, p) ==
    IF up.err # "" THEN up
    ELSE IF Node(up.disk, Parent(p)).perm = "locked"
         THEN [err |-> "EACCES", disk |-> up.disk]
    ELSE [err |-> "", disk |-> Put(up.disk, p, Dir("rw"))]

\* os.MkdirAll(p): [err, disk]. A path that stats is done (or is not a
\* directory); otherwise the parent is made first, then p itself, and what
\* was made stays when a later step fails.
RECURSIVE MkdirAll(_, _)
MkdirAll(d, p) ==
    IF p.kind = "empty" THEN [err |-> "ENOENT", disk |-> d]
    ELSE IF StatErr(d, p) = "" THEN
        [err |-> IF IsDirNode(d, p) THEN "" ELSE "ENOTDIR", disk |-> d]
    ELSE Mkdir(MkdirAll(d, Parent(p)), p)

\* The error of opening p for writing once the directories above it are
\* resolved: a directory cannot be opened, nor a file or a parent directory
\* without permissions.
OpenErr(d, p) ==
    IF p.comps = <<>> THEN "EISDIR"
    ELSE IF p \in DOMAIN d THEN
        (IF d[p].kind = "dir" THEN "EISDIR"
         ELSE IF d[p].perm = "locked" THEN "EACCES" ELSE "")
    ELSE IF Node(d, Parent(p)).perm = "locked" THEN "EACCES"
    ELSE ""

\* The file system after an open with O_TRUNC that ended with error e.
Truncated(e, d, p) ==
    [err |-> e, disk |-> IF e = "" THEN Put(d, p, File("rw", [text |-> "", entries |-> <<>>]))
                         ELSE d]

\* os.OpenFile(p, O_CREATE|O_RDWR|O_TRUNC): [err, disk]; the file is empty
\* once it is open.
OpenTrunc(d, p) == Truncated(ErrOr(WalkErr(d, p), OpenErr(d, p)), d, p)

\* The file system after an open with O_APPEND that ended with error e.
Appended(e, d, p) ==
    [err |-> e, disk |-> IF e = "" /\ p \notin DOMAIN d
                         THEN Put(d, p, File("rw", [text |-> "", entries |-> <<>>]))
                         ELSE d]

\* os.OpenFile(p, O_CREATE|O_APPEND|O_RDWR): [err, disk]; an existing file
\* keeps its contents.
OpenAppend(d, p) == Appended(ErrOr(WalkErr(d, p), OpenErr(d, p)), d, p)

\* os.ReadFile(p) of a path that stats as a file.
ReadFileErr(d, p) == IF d[p].perm = "locked" THEN "EACCES" ELSE ""

\* The paths below p.
Below(d, p) ==
    {q \in DOMAIN d : /\ q.kind = p.kind
                      /\ Len(q.comps) > Len(p.comps)
                      /\ SubSeq(q.comps, 1, Len(p.comps)) = p.comps}

\* os.ReadDir(p): the error, "" when p is a directory that can be listed.
ReadDirErr(d, p) ==
    ErrOr(StatErr(d, p),
          IF ~IsDirNode(d, p) THEN "ENOTDIR"
          ELSE IF Node(d, p).perm = "locked" THEN "EACCES"
          ELSE "")

----------------------------------------------------------------------------
(* Byte strings and the archive codec *)

Raw(t) == [text |-> t, entries |-> <<>>]
Zip(es) == [text |-> "PK", entries |-> es]
Entry(name, b, ok) == [name |-> name, data |-> b, ok |-> ok]

NoData == Raw("")

\* The names of the model in lexical order, the order of a directory walk.
AllNames == <<"a.txt", "b.txt", "d", "sub">>

\* The regular files below p as archive entries named relative to base, in
\* walk order.
RECURSIVE WalkFrom(_, _, _, _)
WalkFrom(d, base, p, i) ==
    IF i > Len(AllNames) THEN <<>>
    ELSE LET q == P(p.kind, Append(p.comps, AllNames[i]))
             here == IF q \notin DOMAIN d THEN <<>>
                     ELSE IF d[q].kind = "dir" THEN WalkFrom(d, base, q, 1)
                     ELSE <<Entry(SubSeq(q.comps, Len(base.comps) + 1, Len(q.comps)),
                                  d[q].data[1], TRUE)>>
         IN here \o WalkFrom(d, base, p, i + 1)

\* zipdir.ZipToBytes(path) of a path that stats as a directory: it fails when
\* the directory or anything below it cannot be read.
ZipToBytesErr(d, p) ==
    IF Node(d, p).perm = "locked" \/ \E q \in Below(d, p) : d[q].perm = "locked"
    THEN "EACCES" ELSE ""

ZipToBytes(d, p) == Zip(WalkFrom(d, p, p, 1))

\* filepath.Join(dir, file.Name) for an entry name of an archive.
Under(dir, name) == P(dir.kind, dir.comps \o name)

\* The second loop of unzipToDir from entry i on: [err, path, disk]. Each
\* round makes dir, opens the entry's path and writes the entry.
RECURSIVE WriteEntries(_, _, _, _, _)
RECURSIVE WriteInto(_, _, _, _, _)
RECURSIVE WriteOpened(_, _, _, _, _)
WriteEntries(d, dir, files, i, writeOk) ==
    IF i > Len(files) THEN [err |-> "", path |-> dir, disk |-> d]
    ELSE WriteInto(MkdirAll(d, dir), dir, files, i, writeOk)

WriteInto(mk, dir, files, i, writeOk) ==
    IF mk.err # "" THEN [err |-> "failed to make dirs", path |-> dir, disk |-> mk.disk]
    ELSE WriteOpened(OpenTrunc(mk.disk, Under(dir, files[i].name)), dir, files, i, writeOk)

WriteOpened(op, dir, files, i, writeOk) ==
    IF op.err # "" THEN
        [err |-> "Failed to open or create file", path |-> Under(dir, files[i].name),
         disk |-> op.disk]
    ELSE IF ~writeOk THEN
        [err |-> "Failed to write data to file", path |-> Under(dir, files[i].name),
         disk |-> op.disk]
    ELSE WriteEntries(Put(op.disk, Under(dir, files[i].name), File("rw", files[i].data)),
                      dir, files, i + 1, writeOk)

\* unzipToDir(dir, zipData): [err, path, disk], err "" for nil. The archive
\* is read whole before anything is written.
unzipToDir(d, dir, zipData, writeOk) ==
    IF zipData.text # "PK" THEN
        [err |-> "Failed to read zip data", path |-> dir, disk |-> d]
    ELSE IF \E i \in 1..Len(zipData.entries) : ~zipData.entries[i].ok THEN
        [err |-> "Failed to unzip file", path |-> dir, disk |-> d]
    ELSE WriteEntries(d, dir, zipData.entries, 1, writeOk)

----------------------------------------------------------------------------
(* Create *)

\* filepath.Split(logFile), the directory half: everything up to the last
\* slash, "" when there is none.
SplitDir(p) ==
    IF LastIndexSlash(p) < 0 THEN EmptyStr ELSE Parent(p)

\* The end of createLogWriter, once the log file was opened.
LogOpened(op) ==
    IF op.err # "" THEN [err |-> <<"failed to open file", op.err>>, disk |-> op.disk]
    ELSE [err |-> <<>>, disk |-> op.disk]

\* createLogWriter after os.MkdirAll(dir).
LogDirMade(mk, logFile) ==
    IF mk.err # "" THEN [err |-> <<"failed to make dirs", mk.err>>, disk |-> mk.disk]
    ELSE LogOpened(OpenAppend(mk.disk, logFile))

\* createLogWriter(level, logFile): [err, disk], err the chain of error texts.
createLogWriter(d, logFile) ==
    IF logFile = EmptyStr THEN [err |-> <<>>, disk |-> d]
    ELSE LogDirMade(MkdirAll(d, SplitDir(logFile)), logFile)

\* The ErrNotExist branch of checkIsDir, after os.MkdirAll(dir).
RootMade(mk) ==
    IF mk.err # "" THEN [err |-> <<"failed to create dir", mk.err>>, disk |-> mk.disk]
    ELSE [err |-> <<>>, disk |-> mk.disk]

\* checkIsDir after os.Stat(dir) gave st.
RootStat(st, d, dir) ==
    IF st = "ENOENT" THEN RootMade(MkdirAll(d, dir))
    ELSE IF st = "" THEN
        (IF ~IsDirNode(d, dir) THEN [err |-> <<"rootDir is not directory">>, disk |-> d]
         ELSE [err |-> <<>>, disk |-> d])
    ELSE [err |-> <<st>>, disk |-> d]

\* What checkIsDir would be if it only read the directory and made nothing.
checkIsDirReadOnly(d, dir) ==
    [err |-> IF ReadDirErr(d, dir) = "" THEN <<>> ELSE <<ReadDirErr(d, dir)>>, disk |-> d]

\* checkIsDir(dir): [err, disk].
checkIsDir(d, dir) == RootStat(StatErr(d, dir), d, dir)

\* Create after checkIsDir.
RootChecked(ck) ==
    IF ck.err # <<>> THEN
        [ok |-> FALSE, err |-> <<"failed to read root dir">> \o ck.err, disk |-> ck.disk]
    ELSE [ok |-> TRUE, err |-> <<>>, disk |-> ck.disk]

\* Create after createLogWriter.
LoggerMade(lw, opts) ==
    IF lw.err # <<>> THEN
        [ok |-> FALSE, err |-> <<"failed to create logger">> \o lw.err, disk |-> lw.disk]
    ELSE RootChecked(checkIsDir(lw.disk, opts.RootDir))

\* Create(opts): [ok, err, disk]; ok when it returns a server and a nil error.
CreateResult(d, opts) == LoggerMade(createLogWriter(d, opts.LogFile), opts)

\* The Server struct Create fills in (its http.Server is not modelled).
NewServer(opts) ==
    [rootDir |-> opts.RootDir, noCache |-> opts.NoCache, noDirs |-> opts.NoDirectories]

NoServer == [rootDir |-> EmptyStr, noCache |-> FALSE, noDirs |-> FALSE]

Contains(err, t) == \E i \in 1..Len(err) : err[i] = t

----------------------------------------------------------------------------
(* Responses *)

\* The response under construction: status 0 until the header is written.
NoResp == [status |-> 0, ctype |-> "", data |-> NoData, text |-> <<>>, names |-> <<>>,
           logs |-> <<>>, hit |-> FALSE, zipped |-> FALSE]

\* ctx.String(code, msg, path): the first write fixes the status, every
\* write appends to the body.
CtxString(r, code, msg, path) ==
    [r EXCEPT !.status = IF r.status = 0 THEN code ELSE r.status,
              !.ctype = IF r.status = 0 THEN "text/plain" ELSE r.ctype,
              !.text = Append(r.text, [msg |-> msg, path |-> path])]

\* ctx.Data(code, contentType, data).
CtxData(r, code, ctype, b) ==
    [r EXCEPT !.status = IF r.status = 0 THEN code ELSE r.status,
              !.ctype = IF r.status = 0 THEN ctype ELSE r.ctype,
              !.data = b]

\* s.logger.Warn / s.logger.Info.
Log(r, level, msg) == [r EXCEPT !.logs = Append(r.logs, <<level, msg>>)]

\* A handler that panics writes nothing; gin's recovery answers 500.
Recovered == [NoResp EXCEPT !.status = 500]

----------------------------------------------------------------------------
(* Handlers: each gives the response and the state the request leaves *)

\* The cache lookup of getFile: caching is on and the path has an entry.
CacheHit(s, c, path) == ~s.noCache /\ path \in DOMAIN c

\* What CacheStore would be if it stored nothing.
CacheStoreNothing(s, c, path, b) == c

\* What CacheStore would be if it kept an entry that is already there.
CacheStoreIfAbsent(s, c, path, b) ==
    IF ~s.noCache /\ path \notin DOMAIN c
    THEN [q \in (DOMAIN c) \cup {path} |-> IF q = path THEN b ELSE c[q]]
    ELSE c

\* The cache store that ends getFile.
CacheStore(s, c, path, b) ==
    IF ~s.noCache
    THEN [q \in (DOMAIN c) \cup {path} |-> IF q = path THEN b ELSE c[q]]
    ELSE c

\* What DirsDisabled would be if the flag were ignored.
DirsDisabledIgnored(s) == FALSE

\* The noDirs check of getFile.
DirsDisabled(s) == s.noDirs

\* What StatFailed would be if the message named no path.
StatFailedUnnamed(path) ==
    CtxString(Log(NoResp, "Warn", "Failed to read file data"),
              400, "Failed to read file at", EmptyStr)

\* The answer of getFile to a path that os.Stat gives an error for.
StatFailed(path) ==
    CtxString(Log(NoResp, "Warn", "Failed to read file data"),
              400, "Failed to read file at", path)

\* The end of getFile for data that was read or zipped: the response, then
\* the cache store.
Served(s, c, path, ctype, b, zipped, msg) ==
    [resp |-> [CtxData(Log(NoResp, "Info", msg), 200, ctype, b) EXCEPT !.zipped = zipped],
     cache |-> CacheStore(s, c, path, b)]

\* The directory branch of getFile.
getDir(s, d, c, path) ==
    IF DirsDisabled(s) THEN
        [resp |-> Log(CtxString(NoResp, 400,
                          "Path is a directory and noDirs flag is true", path),
                      "Warn", "Path is a directory and noDirs flag is true"),
         cache |-> c]
    ELSE IF ZipToBytesErr(d, path) # "" THEN
        [resp |-> [CtxString(Log(NoResp, "Warn", "Failed to zip dir"),
                             400, "Failed to zip dir", path) EXCEPT !.zipped = TRUE],
         cache |-> c]
    ELSE Served(s, c, path, "application/zip", ZipToBytes(d, path), TRUE,
                "Successfully returned directory as zip")

\* The regular file branch of getFile.
getRaw(s, d, c, path) ==
    IF ReadFileErr(d, path) # "" THEN
        [resp |-> CtxString(NoResp, 400, "Failed to read file at", path), cache |-> c]
    ELSE Served(s, c, path, "raw", d[path].data[1], FALSE,
                "Successfully returned file as raw data")

\* What getPath would be if os.Stat came before the cache lookup.
getPathStatFirst(s, d, c, path) ==
    IF StatErr(d, path) # "" THEN [resp |-> StatFailed(path), cache |-> c]
    ELSE IF CacheHit(s, c, path) THEN
        [resp |-> [CtxData(Log(NoResp, "Info", "Retrieved file data from cache"),
                           200, "application/zip", c[path]) EXCEPT !.hit = TRUE],
         cache |-> c]
    ELSE IF IsDirNode(d, path) THEN getDir(s, d, c, path)
    ELSE getRaw(s, d, c, path)

\* Server.getFile for the resolved path: [resp, cache].
getPath(s, d, c, path) ==
    IF CacheHit(s, c, path) THEN
        [resp |-> [CtxData(Log(NoResp, "Info", "Retrieved file data from cache"),
                           200, "application/zip", c[path]) EXCEPT !.hit = TRUE],
         cache |-> c]
    ELSE IF StatErr(d, path) # "" THEN [resp |-> StatFailed(path), cache |-> c]
    ELSE IF IsDirNode(d, path) THEN getDir(s, d, c, path)
    ELSE getRaw(s, d, c, path)

\* Server.getFile: [resp, cache].
getFile(s, d, c, addr) == getPath(s, d, c, Join(s.rootDir, addr))

\* The raw branch of Server.uploadFile once the file is open: [resp, disk,
\* done], done when the branch returned from the handler.
rawOpened(op, path, reqData, writeOk) ==
    IF op.err # "" THEN
        [resp |-> CtxString(Log(NoResp, "Warn", "Failed to create/truncate file"),
                            400, "Failed to open file", path),
         disk |-> op.disk, done |-> TRUE]
    ELSE IF ~writeOk THEN
        [resp |-> CtxString(Log(NoResp, "Warn", "Failed to write file data"),
                            400, "Failed to write data to file", path),
         disk |-> op.disk, done |-> TRUE]
    ELSE [resp |-> NoResp, disk |-> Put(op.disk, path, File("rw", reqData)),
          done |-> FALSE]

\* The raw branch of Server.uploadFile after os.MkdirAll(dir).
rawDirMade(mk, path, reqData, writeOk) ==
    IF mk.err # "" THEN
        [resp |-> CtxString(Log(NoResp, "Warn", "Failed to create dirs"),
                            400, "Failed to make dirs", BeforeLastSlash(path)),
         disk |-> mk.disk, done |-> TRUE]
    ELSE rawOpened(OpenTrunc(mk.disk, path), path, reqData, writeOk)

\* The raw branch of Server.uploadFile: slicing the path at index -1 panics.
uploadRaw(d, path, reqData, writeOk) ==
    IF LastIndexSlash(path) < 0 THEN [resp |-> Recovered, disk |-> d, done |-> TRUE]
    ELSE rawDirMade(MkdirAll(d, BeforeLastSlash(path)), path, reqData, writeOk)

\* The application/zip branch of Server.uploadFile after the archive was
\* extracted: an error is reported and the handler goes on.
unzipped(uz) ==
    IF uz.err # "" THEN
        [resp |-> CtxString(Log(NoResp, "Warn", "Failed to unzip upload file request data"),
                            400, uz.err, uz.path),
         disk |-> uz.disk, done |-> FALSE]
    ELSE [resp |-> NoResp, disk |-> uz.disk, done |-> FALSE]

\* The application/zip branch of Server.uploadFile: [resp, disk, done].
uploadZip(s, d, path, reqData, writeOk) ==
    IF s.noDirs THEN
        [resp |-> Log(CtxString(NoResp, 400,
                          "Content type is application/zip but noDirs flag is set to true",
                          path),
                      "Warn", "Content type is application/zip but noDirs flag is set to true"),
         disk |-> d, done |-> TRUE]
    ELSE unzipped(unzipToDir(d, path, reqData, writeOk))

\* The end of Server.uploadFile: a branch that did not return is followed by
\* the success log and the confirmation.
uploaded(br, c, path) ==
    IF br.done THEN [resp |-> br.resp, disk |-> br.disk, cache |-> c]
    ELSE [resp |-> CtxString(Log(br.resp, "Info", "File data successfully uploaded"),
                             200, "Successfully wrote data to", path),
          disk |-> br.disk, cache |-> c]

\* Server.uploadFile for the resolved path: [resp, disk, cache].
uploadPath(s, d, c, path, contentType, reqData, bodyOk, writeOk) ==
    IF ~bodyOk THEN
        [resp |-> CtxString(Log(NoResp, "Warn", "Failed to read upload file request data"),
                            400, "Failed to read request data", path),
         disk |-> d, cache |-> c]
    ELSE IF contentType = "application/zip" THEN
        uploaded(uploadZip(s, d, path, reqData, writeOk), c, path)
    ELSE uploaded(uploadRaw(d, path, reqData, writeOk), c, path)

\* Server.uploadFile: [resp, disk, cache].
uploadFile(s, d, c, addr, contentType, reqData, bodyOk, writeOk) ==
    uploadPath(s, d, c, Join(s.rootDir, addr), contentType, reqData, bodyOk, writeOk)

\* Server.getEntries for the resolved path; names lists the entries in order.
entriesOf(d, path) ==
    IF ReadDirErr(d, path) # "" THEN
        CtxString(Log(NoResp, "Warn", "Failed to get entries in directory"),
                  400, "Failed to read directory", path)
    ELSE [CtxString(Log(NoResp, "Info", "Successfully processed entries request"),
                    200, "entries", path)
          EXCEPT !.names = SelectSeq(AllNames,
                     LAMBDA n : P(path.kind, Append(path.comps, n)) \in DOMAIN d)]

\* Server.getEntries: the response.
getEntries(s, d, addr) == entriesOf(d, Join(s.rootDir, addr))

\* The routes Create registers.
HandleGetEntries(s, d, addr) == getEntries(s, d, addr)

HandleGetContent(s, d, c, addr) == getFile(s, d, c, addr)

\* What the upload route would be if it dropped the cache entry of the path.
PostContentInvalidating(s, d, c, addr, contentType, reqData, bodyOk, writeOk) ==
    [uploadFile(s, d, c, addr, contentType, reqData, bodyOk, writeOk)
     EXCEPT !.cache = [q \in (DOMAIN c) \ {Join(s.rootDir, addr)} |-> c[q]]]

HandlePostContent(s, d, c, addr, contentType, reqData, bodyOk, writeOk) ==
    uploadFile(s, d, c, addr, contentType, reqData, bodyOk, writeOk)

----------------------------------------------------------------------------
(* Inputs *)

Srv == P("abs", <<"srv">>)
Dot == P("rel", <<>>)

RootDirs == {Srv, P("abs", <<"new">>), P("abs", <<"file">>), P("abs", <<"ro", "x">>),
             Dot, EmptyStr}

LogFiles == {P("abs", <<"ro", "log.txt">>), P("abs", <<"var", "log.txt">>)}

\* The option values Create is called with: the zero-valued fields with
\* every root, each pair of flags, each log file.
OptsSet ==
    [RootDir : RootDirs, LogFile : {EmptyStr}, NoCache : {FALSE},
     NoDirectories : {FALSE}, Addr : {""}, Port : {0}]
    \cup
    [RootDir : {Srv}, LogFile : {EmptyStr}, NoCache : BOOLEAN,
     NoDirectories : BOOLEAN, Addr : {"localhost"}, Port : {9092}]
    \cup
    [RootDir : {Srv, P("abs", <<"file">>)}, LogFile : LogFiles, NoCache : {FALSE},
     NoDirectories : {FALSE}, Addr : {"localhost"}, Port : {9092}]

\* The request paths: "/d", "/d/a.txt", "/d/sub".
Addrs == {<<"d">>, <<"d", "a.txt">>, <<"d", "sub">>}

Hello == Raw("hello")
World == Raw("world")

\* The archive {"a.txt": "hello", "sub/b.txt": "world"}.
ZipAB == Zip(<<Entry(<<"a.txt">>, Hello, TRUE), Entry(<<"sub", "b.txt">>, World, TRUE)>>)

\* An archive with an entry that cannot be read.
ZipCorrupt == Zip(<<Entry(<<"a.txt">>, World, FALSE)>>)

\* The uploads: content-type and body.
Uploads ==
    [ct : {"text/plain"}, body : {Hello, World}]
    \cup [ct : {"application/zip"}, body : {ZipAB, ZipCorrupt, Hello}]

\* What the environment does to an upload: nothing, the body cannot be
\* read, or a write to the disk fails.
Faults == {"none", "body", "write"}

\* The disk before Create: a root with a directory and a file in it, a
\* regular file, a directory without permissions.
Disk0 ==
    LET paths == {Srv, P("abs", <<"srv", "d">>), P("abs", <<"srv", "d", "a.txt">>),
                  P("abs", <<"file">>), P("abs", <<"ro">>)}
    IN [p \in paths |->
           IF p = P("abs", <<"ro">>) THEN Dir("locked")
           ELSE IF p = P("abs", <<"file">>) \/ p = P("abs", <<"srv", "d", "a.txt">>)
                THEN File("rw", Hello)
           ELSE Dir("rw")]

\* What os.Stat says of p when it gives st: "dir", "file", "none" when p is
\* not there, "err" when it cannot be reached.
KindOf(st, d, p) ==
    IF st = "" THEN (IF IsDirNode(d, p) THEN "dir" ELSE "file")
    ELSE IF st = "ENOENT" THEN "none"
    ELSE "err"

\* p is not there and can be made a directory: mk is os.MkdirAll(p) on d.
Fresh(mk, d) == mk.err = "" /\ mk.disk # d

NoReq == [op |-> "none", addr |-> <<>>, path |-> EmptyStr, ctype |-> "",
          body |-> NoData, fault |-> "none", kind |-> "none", fresh |-> FALSE,
          opts |-> <<>>, resp |-> NoResp]

\* The record of a request: what was asked, what the path was on the disk
\* when the request arrived (fresh: it can be made a directory), and the
\* response.
Req(op, addr, path, ctype, body, fault, resp) ==
    [op |-> op, addr |-> addr, path |-> path, ctype |-> ctype,
     body |-> body, fault |-> fault,
     kind |-> KindOf(StatErr(disk, path), disk, path),
     fresh |-> Fresh(MkdirAll(disk, path), disk),
     opts |-> <<>>, resp |-> resp]

\* The workers gin runs side by side, one per request in flight.
Workers == {1, 2}

\* A worker: where it is in getFile ("idle", "lookup" before the cache
\* lookup, "read" before os.Stat, "store" before the cache store, "storing"
\* inside it, "done"), the resolved path, the bytes and the status of its
\* response, whether the response came from the cache, and whether another
\* worker's store of the same key ran into its own.
Idle == [pc |-> "idle", path |-> EmptyStr, data |-> NoData, status |-> 0,
         hit |-> FALSE, raced |-> FALSE]

\* The bytes of a slice whose pointer and length come from two stores that
\* ran into each other: the bytes of neither.
Torn == Raw("torn")

----------------------------------------------------------------------------
(* Actions *)

Init ==
    /\ phase = "init"
    /\ createErr = <<>>
    /\ srv = NoServer
    /\ disk = Disk0
    /\ cache = << >>
    /\ zips = 0
    /\ last = NoReq
    /\ quiet = TRUE
    /\ steps = 0
    /\ workers = [w \in Workers |-> Idle]

\* Create(opts)
Create ==
    /\ phase = "init"
    /\ \E opts \in OptsSet :
       \E r \in {CreateResult(disk, opts)} :
           /\ phase' = IF r.ok THEN "running" ELSE "failed"
           /\ createErr' = r.err
           /\ srv' = IF r.ok THEN NewServer(opts) ELSE NoServer
           /\ disk' = r.disk
           /\ last' = [NoReq EXCEPT !.op = "Create", !.opts = <<opts>>]
    /\ UNCHANGED <<cache, zips, quiet, steps, workers>>

\* GET /content/*addr
GetContent ==
    /\ phase = "running"
    /\ steps < MaxSteps
    /\ \E addr \in Addrs :
       \E r \in {HandleGetContent(srv, disk, cache, addr)} :
           /\ cache' = r.cache
           /\ zips' = IF r.resp.zipped THEN zips + 1 ELSE zips
           /\ last' = Req("GET", addr, Join(srv.rootDir, addr), "", NoData, "none", r.resp)
    /\ quiet' = TRUE
    /\ steps' = steps + 1
    /\ UNCHANGED <<phase, createErr, srv, disk, workers>>

\* POST /content/*addr
PostContent ==
    /\ phase = "running"
    /\ steps < MaxSteps
    /\ \E addr \in Addrs, up \in Uploads, fault \in Faults :
       \E r \in {HandlePostContent(srv, disk, cache, addr, up.ct, up.body,
                                   fault # "body", fault # "write")} :
           /\ disk' = r.disk
           /\ cache' = r.cache
           /\ last' = Req("POST", addr, Join(srv.rootDir, addr), up.ct,
                          IF fault = "body" THEN NoData ELSE up.body, fault, r.resp)
    /\ quiet' = TRUE
    /\ steps' = steps + 1
    /\ UNCHANGED <<phase, createErr, srv, zips, workers>>

\* GET /entries/*addr
GetEntries ==
    /\ phase = "running"
    /\ steps < MaxSteps
    /\ \E addr \in Addrs :
        last' = Req("LIST", addr, Join(srv.rootDir, addr), "", NoData, "none",
                    HandleGetEntries(srv, disk, addr))
    /\ quiet' = TRUE
    /\ steps' = steps + 1
    /\ UNCHANGED <<phase, createErr, srv, disk, cache, zips, workers>>

\* What is left of the disk when p and everything below it is removed.
Without(d, p) == [q \in (DOMAIN d) \ ({p} \cup Below(d, p)) |-> d[q]]

\* Another process changes a path under the root: it removes it, makes it a
\* directory, writes it as a file or takes away its permissions.
Changed(d, p) ==
    {Without(d, q) : q \in {p} \cap DOMAIN d}
    \cup {Put(Without(d, p), p, n) : n \in {m \in {Dir("rw"), File("rw", World)} :
                                              DirErr(d, Parent(p)) = ""}}
    \cup {[d EXCEPT ![q].perm = "locked"] : q \in {p} \cap DOMAIN d}

\* The disk changes between two requests.
EnvChange ==
    /\ phase = "running"
    /\ steps < MaxSteps
    /\ \E addr \in Addrs : disk' \in Changed(disk, Join(srv.rootDir, addr)) \ {disk}
    /\ quiet' = FALSE
    /\ steps' = steps + 1
    /\ UNCHANGED <<phase, createErr, srv, cache, zips, last, workers>>

Next == Create \/ GetContent \/ PostContent \/ GetEntries \/ EnvChange

Spec == Init /\ [][Next]_vars

----------------------------------------------------------------------------
(* Requests served side by side: getFile step by step *)

\* The other workers that are inside the cache store.
OthersStoring(w) == {o \in Workers \ {w} : workers[o].pc = "storing"}

\* The store of worker w runs into another worker's store of the same key.
Overlapped(w) ==
    workers[w].raced \/ \E o \in OthersStoring(w) : workers[o].path = workers[w].path

\* A request arrives and gin hands it to a free worker.
BeginGet ==
    /\ phase = "running"
    /\ steps < MaxConc
    /\ \E w \in Workers, addr \in Addrs :
           /\ workers[w].pc \in {"idle", "done"}
           /\ workers' = [workers EXCEPT ![w] =
                             [Idle EXCEPT !.pc = "lookup", !.path = Join(srv.rootDir, addr)]]
    /\ steps' = steps + 1
    /\ UNCHANGED <<phase, createErr, srv, disk, cache, zips, last, quiet>>

\* The maps a lookup by w may see: the cache, or, while another worker is
\* inside its store, the cache with that store done or half done (the map
\* is read without a lock).
Seen(w) ==
    {cache} \cup
    UNION {{CacheStore(srv, cache, workers[o].path, workers[o].data),
            CacheStore(srv, cache, workers[o].path, Torn)} : o \in OthersStoring(w)}

\* Worker w after the lookup in map c: answered from the cache, or on to
\* os.Stat.
Looked(w, c) ==
    IF CacheHit(srv, c, workers[w].path)
    THEN [workers[w] EXCEPT !.pc = "done", !.status = 200,
                            !.data = c[workers[w].path], !.hit = TRUE]
    ELSE [workers[w] EXCEPT !.pc = "read"]

\* getFile, the cache lookup.
Lookup ==
    /\ phase = "running"
    /\ \E w \in Workers :
           /\ workers[w].pc = "lookup"
           /\ \E c \in Seen(w) : workers' = [workers EXCEPT ![w] = Looked(w, c)]
    /\ UNCHANGED <<phase, createErr, srv, disk, cache, zips, last, quiet, steps>>

\* Worker w after os.Stat and the read or zip that gave response r: on to
\* the cache store when the response is 200 and caching is enabled.
HasRead(w, r) ==
    [workers[w] EXCEPT !.pc = IF r.status = 200 /\ ~srv.noCache THEN "store" ELSE "done",
                       !.status = r.status,
                       !.data = r.data]

\* getFile from os.Stat to the response, after a lookup that missed.
StatAndRead ==
    /\ phase = "running"
    /\ \E w \in Workers :
           /\ workers[w].pc = "read"
           /\ \E r \in {getPath(srv, disk, << >>, workers[w].path).resp} :
                  /\ workers' = [workers EXCEPT ![w] = HasRead(w, r)]
                  /\ zips' = IF r.zipped THEN zips + 1 ELSE zips
    /\ UNCHANGED <<phase, createErr, srv, disk, cache, last, quiet, steps>>

\* getFile, the cache store begins: s.cache[path] = data is under way.
StoreBegin ==
    /\ phase = "running"
    /\ \E w \in Workers :
           /\ workers[w].pc = "store"
           /\ workers' = [workers EXCEPT ![w].pc = "storing"]
    /\ UNCHANGED <<phase, createErr, srv, disk, cache, zips, last, quiet, steps>>

\* The bytes of the stores of the same key that ran into the store of w:
\* those of the workers inside such a store, and the entry left by one that
\* has ended.
Rivals(w) ==
    {workers[o].data : o \in {x \in OthersStoring(w) : workers[x].path = workers[w].path}}
    \cup {cache[q] : q \in {x \in {workers[w].path} \cap DOMAIN cache : workers[w].raced}}

\* The bytes the entry may hold after the store of w: its own; when other
\* stores of the same key ran into it, theirs as well, and torn bytes when
\* theirs are not its own (the slice header is written word by word).
StoredBytes(w) ==
    {workers[w].data} \cup Rivals(w)
    \cup {t \in {Torn} : \E r \in Rivals(w) : r # workers[w].data}

\* What the map may be after the store of w.
Stored(w) == {CacheStore(srv, cache, workers[w].path, b) : b \in StoredBytes(w)}

\* The workers after the store of w: w is done, and a worker still inside
\* a store of the same key has been run into.
AfterStore(w) ==
    [o \in Workers |->
        IF o = w THEN [workers[w] EXCEPT !.pc = "done"]
        ELSE IF workers[o].pc = "storing" /\ workers[o].path = workers[w].path
             THEN [workers[o] EXCEPT !.raced = TRUE]
        ELSE workers[o]]

\* getFile, the cache store ends.
StoreEnd ==
    /\ phase = "running"
    /\ \E w \in Workers :
           /\ workers[w].pc = "storing"
           /\ cache' \in Stored(w)
           /\ workers' = AfterStore(w)
    /\ UNCHANGED <<phase, createErr, srv, disk, zips, last, quiet, steps>>

\* The Go runtime finds the map being written by one worker while another
\* reads or writes it and ends the process ("fatal error: concurrent map
\* writes", "concurrent map read and map write").
MapFatal ==
    /\ phase = "running"
    /\ \E w \in Workers :
           /\ workers[w].pc \in {"lookup", "store", "storing"}
           /\ ~srv.noCache
           /\ OthersStoring(w) # {}
    /\ phase' = "crashed"
    /\ UNCHANGED <<createErr, srv, disk, cache, zips, last, quiet, steps, workers>>

\* An upload served while the workers are in getFile; it acts on the disk
\* only.
Upload ==
    /\ phase = "running"
    /\ steps < MaxConc
    /\ \E addr \in Addrs, up \in Uploads, fault \in Faults :
       \E r \in {HandlePostContent(srv, disk, cache, addr, up.ct, up.body,
                                   fault # "body", fault # "write")} :
           /\ disk' = r.disk
           /\ cache' = r.cache
    /\ steps' = steps + 1
    /\ UNCHANGED <<phase, createErr, srv, zips, last, quiet, workers>>

NextConc ==
    Create \/ BeginGet \/ Lookup \/ StatAndRead \/ StoreBegin \/ StoreEnd
    \/ MapFatal \/ Upload

SpecConc == Init /\ [][NextConc]_vars

----------------------------------------------------------------------------
(* Properties *)

\* This step serves a request.
ReqStep == steps' = steps + 1 /\ quiet'

HasText(r, msg) == \E i \in 1..Len(r.text) : r.text[i].msg = msg
HasLog(r, level) == \E i \in 1..Len(r.logs) : r.logs[i][1] = level

\* C1: once a raw upload to p with body b has returned 200, the next GET of
\* p returns 200 with body b and content-type raw.
C1_RawRoundTrip ==
    [][(/\ ReqStep
        /\ quiet
        /\ last.op = "POST"
        /\ last.ctype # "application/zip"
        /\ last.resp.status = 200
        /\ last'.op = "GET"
        /\ last'.path = last.path)
       => (/\ last'.resp.status = 200
           /\ last'.resp.data = last.body
           /\ last'.resp.ctype = "raw")]_vars

\* Two GETs of the same path, one after the other, the first of a path that
\* is a directory, with caching and directory serving enabled.
TwoDirGets ==
    /\ ReqStep
    /\ ~srv.noCache
    /\ ~srv.noDirs
    /\ last.op = "GET"
    /\ last.kind = "dir"
    /\ last'.op = "GET"
    /\ last'.path = last.path

\* The second GET repeats the first and leaves the codec alone.
SecondFromCache ==
    /\ last'.resp.status = 200
    /\ last'.resp.data = last.resp.data
    /\ ~last'.resp.zipped
    /\ zips' = zips

\* C2 as stated: with caching and directory serving enabled, two successive
\* GETs of a directory both return 200 with identical bodies, the second
\* without invoking the codec, whatever happened on the disk in between.
C2_BothOk ==
    [][TwoDirGets => (last.resp.status = 200 /\ SecondFromCache)]_vars

\* C2 as amended: when the first of the two GETs returned 200, the second
\* returns 200 with the identical body, without invoking the codec.
C2_SecondFromCache ==
    [][(TwoDirGets /\ last.resp.status = 200) => SecondFromCache]_vars

\* C2, its case: a directory is answered from the cache with an archive that
\* is no longer what zipping the directory gives.
C2_Witness ==
    /\ last.op = "GET"
    /\ last.kind = "dir"
    /\ ~srv.noDirs
    /\ last.resp.hit
    /\ last.resp.data.text = "PK"
    /\ last.path \in DOMAIN disk
    /\ IsDirNode(disk, last.path)
    /\ ZipToBytesErr(disk, last.path) = ""
    /\ last.resp.data # ZipToBytes(disk, last.path)

\* Every entry of archive b is a file under dir with the entry's contents.
Extracted(d, dir, b) ==
    \A i \in 1..Len(b.entries) :
        /\ Under(dir, b.entries[i].name) \in DOMAIN d
        /\ d[Under(dir, b.entries[i].name)] = File("rw", b.entries[i].data)

\* C3: a zip upload (directory serving enabled) of a readable archive to a
\* destination that can be made returns 200 and leaves every entry on the
\* disk at the destination joined with the entry's name.
C3_ZipExtracted ==
    (/\ last.op = "POST"
     /\ last.ctype = "application/zip"
     /\ last.fault = "none"
     /\ last.body.text = "PK"
     /\ \A i \in 1..Len(last.body.entries) : last.body.entries[i].ok
     /\ last.fresh
     /\ ~srv.noDirs
     /\ quiet)
    => (/\ last.resp.status = 200
        /\ Extracted(disk, last.path, last.body))

\* C4: an upload gets one outcome: the confirmation and the Info log come
\* with status 200, alone, and never with an error body or a Warn log.
C4_OneOutcome ==
    last.op = "POST" =>
        /\ (HasText(last.resp, "Successfully wrote data to") \/ HasLog(last.resp, "Info"))
           => (/\ last.resp.status = 200
               /\ Len(last.resp.text) = 1
               /\ ~HasLog(last.resp, "Warn"))
        /\ last.resp.status = 400
           => (/\ ~HasText(last.resp, "Successfully wrote data to")
               /\ ~HasLog(last.resp, "Info"))

\* C5: every request is answered with status 200 or 400.
C5_Status200Or400 ==
    last.op \in {"GET", "POST", "LIST"} => last.resp.status \in {200, 400}

\* This step serves a GET of a path that is a directory while directory
\* serving is disabled.
DirGetNoDirs == ReqStep /\ last'.op = "GET" /\ last'.kind = "dir" /\ srv.noDirs

\* The request is refused with the noDirs message, the codec is not invoked
\* and the cache is left as it was.
Refused ==
    /\ last'.resp.status = 400
    /\ last'.resp.text = <<[msg |-> "Path is a directory and noDirs flag is true",
                            path |-> last'.path]>>
    /\ ~last'.resp.zipped
    /\ zips' = zips
    /\ cache' = cache

\* C6 as stated: a GET of a directory with directory serving disabled
\* returns 400 with the noDirs message, invokes no codec and stores no
\* cache entry.
C6_DirRefused == [][DirGetNoDirs => Refused]_vars

\* C6 as amended: the same, when caching is disabled or the path has no
\* cache entry when the request arrives.
C6_DirRefusedUncached ==
    [][(DirGetNoDirs /\ ~CacheHit(srv, cache, last'.path)) => Refused]_vars

\* C6, its case: with caching enabled, a directory was refused.
C6_Witness ==
    /\ last.op = "GET"
    /\ last.kind = "dir"
    /\ srv.noDirs
    /\ ~srv.noCache
    /\ last.resp.status = 400
    /\ HasText(last.resp, "Path is a directory and noDirs flag is true")

\* The response is a 400 whose body names the resolved path of the request.
NamesPath(q) ==
    /\ q.resp.status = 400
    /\ \E i \in 1..Len(q.resp.text) : q.resp.text[i].path = Join(srv.rootDir, q.addr)

\* C7 as stated: a GET of a path that is not on the disk returns 400 with a
\* body that contains the resolved path, in any state of the server.
C7_MissingIs400 ==
    (last.op = "GET" /\ last.kind = "none") => NamesPath(last)

\* C7 as amended: the same, when caching is disabled or the path has no
\* cache entry when the request arrives.
C7_MissingIs400Uncached ==
    [][(/\ ReqStep
        /\ last'.op = "GET"
        /\ last'.kind = "none"
        /\ ~CacheHit(srv, cache, last'.path))
       => NamesPath(last')]_vars

\* C7, its case: with caching enabled, a path that is not there got its 400.
C7_Witness ==
    /\ last.op = "GET"
    /\ last.kind = "none"
    /\ ~srv.noCache
    /\ NamesPath(last)

\* The options of the Create call just made.
CreateOpts == last.opts[1]

\* The root directory of the options before Create: an existing directory,
\* or absent and creatable.
RootIsDir(o) == StatErr(Disk0, o.RootDir) = "" /\ IsDirNode(Disk0, o.RootDir)

RootCreatable(o) ==
    StatErr(Disk0, o.RootDir) = "ENOENT" /\ MkdirAll(Disk0, o.RootDir).err = ""

\* What Create returns for each root: a server with the root a directory on
\* the disk, or no server and "failed to read root dir".
ByRoot ==
    IF RootIsDir(CreateOpts) \/ RootCreatable(CreateOpts)
    THEN /\ phase = "running"
         /\ createErr = <<>>
         /\ StatErr(disk, CreateOpts.RootDir) = ""
         /\ IsDirNode(disk, CreateOpts.RootDir)
    ELSE /\ phase = "failed"
         /\ Contains(createErr, "failed to read root dir")

C9_PortRequired ==
    (/\ last.op = "Create"
     /\ RootIsDir(CreateOpts)
     /\ CreateOpts.Addr = ""
     /\ CreateOpts.Port = 0
     /\ CreateOpts.LogFile = EmptyStr
     /\ ~CreateOpts.NoCache
     /\ ~CreateOpts.NoDirectories)
    => (phase = "failed" /\ Contains(createErr, "port not specified"))

\* C10: an upload leaves the cache as it was, whatever its outcome, and a
\* GET that follows a successful raw upload to a cached path returns the
\* cached bytes.
C10_UploadKeepsCache ==
    [][/\ (ReqStep /\ last'.op = "POST") => cache' = cache
       /\ (/\ ReqStep
           /\ last.op = "POST"
           /\ last.ctype # "application/zip"
           /\ last.resp.status = 200
           /\ CacheHit(srv, cache, last.path)
           /\ last'.op = "GET"
           /\ last'.path = last.path)
          => (last'.resp.status = 200 /\ last'.resp.data = cache[last.path])]_vars

\* C10, its case: a raw upload of other bytes than the cached ones has
\* succeeded and the cache entry still holds the old bytes.
C10_Witness ==
    /\ last.op = "POST"
    /\ last.ctype # "application/zip"
    /\ last.resp.status = 200
    /\ CacheHit(srv, cache, last.path)
    /\ cache[last.path] # last.body
    /\ last.path \in DOMAIN disk
    /\ disk[last.path] = File("rw", last.body)

\* This step serves a GET of a path that has a cache entry, caching enabled.
CachedGet == ReqStep /\ last'.op = "GET" /\ CacheHit(srv, cache, last'.path)

\* The answer from the cache: 200, the cached bytes, content-type
\* application/zip, one Info log line and nothing else.
FromCache(r, b) ==
    /\ r.status = 200
    /\ r.ctype = "application/zip"
    /\ r.data = b
    /\ r.hit
    /\ r.text = <<>>
    /\ r.logs = <<<<"Info", "Retrieved file data from cache">>>>

\* C11: when caching is enabled and the resolved path is in the cache, a GET
\* is answered 200 with the cached bytes and content-type application/zip,
\* whatever the path is on the disk at that time; no stat error, noDirs
\* refusal or read error is reported, the codec is not invoked and the
\* cache and the disk are left as they were.
C11_LookupFirst ==
    [][CachedGet => (/\ FromCache(last'.resp, cache[last'.path])
                     /\ ~last'.resp.zipped
                     /\ zips' = zips
                     /\ cache' = cache
                     /\ disk' = disk)]_vars

\* C11, its case: bytes cached from a raw file are served from the cache as
\* application/zip although the path is no longer a file on the disk.
C11_Witness ==
    /\ last.op = "GET"
    /\ last.resp.hit
    /\ last.resp.ctype = "application/zip"
    /\ last.resp.data.text # "PK"
    /\ last.kind \in {"none", "dir", "err"}

\* Worker w ends its cache store in this step.
Stores(w) == workers[w].pc = "storing" /\ workers'[w].pc = "done"

\* C12: no store waits for another worker or looks at what is in the map:
\* a store that no other store of the same key runs into leaves cache[path]
\* the storing worker's bytes, whatever entry an earlier store left there
\* and whatever the disk holds by then.
C12_LaterStoreWins ==
    [][\A w \in Workers :
          (Stores(w) /\ ~Overlapped(w))
          => (/\ workers[w].path \in DOMAIN cache'
              /\ cache'[workers[w].path] = workers[w].data)]_vars

\* C12, its case: two workers missed the lookup for the same path and both
\* read the file, an upload in between; their stores ran into each other,
\* and the store that ended last left the bytes read before the upload.
C12_Witness ==
    \E w \in Workers, o \in Workers :
        /\ w # o
        /\ workers[w].pc = "done" /\ workers[o].pc = "done"
        /\ workers[w].path = workers[o].path
        /\ workers[w].status = 200 /\ workers[o].status = 200
        /\ ~workers[w].hit /\ ~workers[o].hit
        /\ workers[w].raced
        /\ workers[w].data # workers[o].data
        /\ workers[w].path \in DOMAIN cache
        /\ cache[workers[w].path] = workers[w].data
        /\ workers[w].path \in DOMAIN disk
        /\ disk[workers[w].path] = File("rw", workers[o].data)

\* C13: every change of the cache is the store of bytes that a Get Content
\* request read from the file or made by zipping the directory and answered
\* with status 200, under the path of that request; nothing else adds or
\* changes an entry (no request that ends in 400, no upload), and with
\* caching disabled the cache stays empty.
C13_Provenance ==
    [][/\ cache' # cache
          => \E w \in Workers, o \in Workers :
                /\ Stores(w)
                /\ workers[o].pc \in {"storing", "done"}
                /\ workers[o].path = workers[w].path
                /\ workers[o].status = 200
                /\ ~workers[o].hit
                /\ cache' = CacheStore(srv, cache, workers[w].path, workers[o].data)
       /\ srv.noCache => cache' = << >>]_vars

====
